---- MODULE Spec2Model ----
(***************************************************************************)
(* Model of the floating-point raycaster backend (raycaster_float.c) and   *)
(* of the SDL host that drives it (main_sdl.c).                            *)
(*                                                                         *)
(* Numbers.  The C code computes in IEEE-754 binary32 (`float'), with some *)
(* steps in binary64 (`double').  A float is held here as its bit pattern, *)
(* read as a sign and a 31-bit magnitude: the integer                      *)
(*     sign * (biased exponent * 2^23 + fraction),                         *)
(* so 1.0f is 1065353216 = 0x3f800000 and -1.0f is -1065353216.  The two   *)
(* zeros are one value: the code compares them, converts them and adds     *)
(* them alike, and the one quotient by a zero it forms (cotA = 1 / tanA)   *)
(* is used only where tanA is not zero.  Every float operation is rounded  *)
(* to nearest, ties to even.  Double steps are carried out on wide         *)
(* integers and rounded to 53 bits where the code holds a double, then to  *)
(* 24 bits where it stores a float.                                        *)
(* All integers of the model stay inside 32 bits.                          *)
(***************************************************************************)
EXTENDS Integers, Sequences, FiniteSets, TLC

\* ------------------------------------------------------------------------
\* binary32
\* ------------------------------------------------------------------------
INT_MAX == (2 ^ 30 - 1) * 2 + 1          \* 2^31 - 1
HIDDEN == 2 ^ 23                         \* the implicit leading mantissa bit
INF == 255 * HIDDEN                      \* +infinity, 0x7f800000
NAN == INF + 2 ^ 22                      \* the quiet NaN, 0x7fc00000

Abs(x) == IF x < 0 THEN -x ELSE x
Sgn(x) == IF x < 0 THEN -1 ELSE 1
Min(a, b) == IF a < b THEN a ELSE b
Max(a, b) == IF a < b THEN b ELSE a

IsNaN(x) == Abs(x) > INF
IsInf(x) == Abs(x) = INF

\* The number of bits of m >= 0.
BitLen4(m) == IF m >= 8 THEN 4 ELSE IF m >= 4 THEN 3 ELSE IF m >= 2 THEN 2
              ELSE IF m >= 1 THEN 1 ELSE 0
BitLen8(m) == IF m >= 16 THEN 4 + BitLen4(m \div 16) ELSE BitLen4(m)
BitLen16(m) == IF m >= 256 THEN 8 + BitLen8(m \div 256) ELSE BitLen8(m)
BitLen(m) == IF m >= 65536 THEN 16 + BitLen16(m \div 65536) ELSE BitLen16(m)

\* A finite float of magnitude p is Mant(p) * 2^Expo(p).
Mant(p) == IF p < HIDDEN THEN p ELSE (p % HIDDEN) + HIDDEN
Expo(p) == IF p < HIDDEN THEN -149 ELSE p \div HIDDEN - 150

\* The magnitude nearest m * 2^e (ties to even) once `shift' low bits of m
\* are dropped; st = 1 says the exact value lies above m * 2^e by less than
\* one unit of m.  m is below 2^31: with 31 bits dropped it is more than
\* half a unit only above 2^30, and with more bits dropped it never is.
RoundShift(m, e, st, shift) ==
    IF shift > 31 THEN 0
    ELSE IF shift = 31
    THEN (e + shift + 149) * HIDDEN
         + (IF m > 2 ^ 30 \/ (m = 2 ^ 30 /\ st = 1) THEN 1 ELSE 0)
    ELSE IF shift <= 0 THEN (e + shift + 149) * HIDDEN + m * 2 ^ (-shift)
    ELSE LET q == m \div 2 ^ shift
             r == m % 2 ^ shift
             half == 2 ^ (shift - 1)
         IN  (e + shift + 149) * HIDDEN + q
             + (IF r > half \/ (r = half /\ (st = 1 \/ q % 2 = 1))
                THEN 1 ELSE 0)

RoundAt(m, e, st, shift) ==
    IF e + shift > 104 THEN INF
    ELSE Min(RoundShift(m, e, st, shift), INF)

\* The float nearest s * m * 2^e (s = 1 or -1, 0 <= m < 2^31).
Pack(s, m, e, st) ==
    IF m = 0 THEN 0
    ELSE s * RoundAt(m, e, st, Max(BitLen(m) - 24, -149 - e))

\* (float) n for an int n; the most negative int is -2^31.
FromInt(n) ==
    IF n = -INT_MAX - 1 THEN -((127 + 31) * HIDDEN)
    ELSE Pack(Sgn(n), Abs(n), 0, 0)

\* x * y.  The 48-bit product of the mantissas is formed from 12-bit halves
\* and cut to its upper 29 bits, the rest being sticky.
MulMant(a1, a0, b1, b0, e, s) ==
    LET t == (a1 * b0 + a0 * b1) + (a0 * b0) \div 4096
        hi == a1 * b1 + t \div 4096
        lo == (t % 4096) * 4096 + ((a0 * b0) % 4096)
    IN  Pack(s, hi * 32 + lo \div 2 ^ 19, e + 19,
             IF lo % 2 ^ 19 = 0 THEN 0 ELSE 1)

MulNorm(ma, mb, e, s) ==
    MulMant(ma \div 4096, ma % 4096, mb \div 4096, mb % 4096, e, s)

MulFinite(ma, mb, e, s) ==
    IF ma = 0 \/ mb = 0 THEN 0
    ELSE MulNorm(ma * 2 ^ (24 - BitLen(ma)), mb * 2 ^ (24 - BitLen(mb)),
                 e - (24 - BitLen(ma)) - (24 - BitLen(mb)), s)

FMul(x, y) ==
    IF IsNaN(x) \/ IsNaN(y) THEN NAN
    ELSE IF IsInf(x) \/ IsInf(y)
         THEN IF x = 0 \/ y = 0 THEN NAN ELSE Sgn(x) * Sgn(y) * INF
    ELSE MulFinite(Mant(Abs(x)), Mant(Abs(y)),
                   Expo(Abs(x)) + Expo(Abs(y)), Sgn(x) * Sgn(y))

\* x / y.  Both mantissas are brought to 24 bits and 28 quotient bits are
\* produced, seven at a time; the remainder is sticky.
RECURSIVE DivBits(_, _, _, _)
DivBits(r, d, q, n) ==
    IF n = 0 THEN [q |-> q, r |-> r]
    ELSE DivBits((r * 128) % d, d, q * 128 + (r * 128) \div d, n - 1)

DivQuot(qr, e, s) == Pack(s, qr.q, e, IF qr.r = 0 THEN 0 ELSE 1)

DivNorm(ma, la, mb, lb, e, s) ==
    DivQuot(DivBits((ma * 2 ^ (24 - la)) % (mb * 2 ^ (24 - lb)),
                    mb * 2 ^ (24 - lb),
                    (ma * 2 ^ (24 - la)) \div (mb * 2 ^ (24 - lb)), 4),
            e - (24 - la) + (24 - lb) - 28, s)

DivFinite(ma, mb, e, s) == DivNorm(ma, BitLen(ma), mb, BitLen(mb), e, s)

FDiv(x, y) ==
    IF IsNaN(x) \/ IsNaN(y) THEN NAN
    ELSE IF IsInf(x) THEN IF IsInf(y) THEN NAN
                          ELSE IF y < 0 THEN -x ELSE x
    ELSE IF IsInf(y) THEN 0
    ELSE IF y = 0 THEN IF x = 0 THEN NAN ELSE Sgn(x) * INF
    ELSE IF x = 0 THEN 0
    ELSE DivFinite(Mant(Abs(x)), Mant(Abs(y)),
                   Expo(Abs(x)) - Expo(Abs(y)), Sgn(x) * Sgn(y))

\* x + y.  a is the operand of the larger magnitude; both mantissas get
\* five more bits, and what b loses when it is aligned is sticky.
AddAligned(sa, big, sb, small, st, e) ==
    IF sa = sb THEN Pack(sa, big + small, e, st)
    ELSE Pack(sa, big - small - st, e, st)

AddShift(sa, ma, ea, sb, mb, d) ==
    IF d > 29 THEN AddAligned(sa, ma * 32, sb, 0, IF mb = 0 THEN 0 ELSE 1, ea - 5)
    ELSE AddAligned(sa, ma * 32, sb, (mb * 32) \div 2 ^ d,
                    IF (mb * 32) % 2 ^ d = 0 THEN 0 ELSE 1, ea - 5)

AddFinite(a, b) ==
    AddShift(Sgn(a), Mant(Abs(a)), Expo(Abs(a)), Sgn(b), Mant(Abs(b)),
             Expo(Abs(a)) - Expo(Abs(b)))

FAdd(x, y) ==
    IF IsNaN(x) \/ IsNaN(y) THEN NAN
    ELSE IF IsInf(x) THEN IF IsInf(y) /\ x # y THEN NAN ELSE x
    ELSE IF IsInf(y) THEN y
    ELSE IF Abs(x) >= Abs(y) THEN AddFinite(x, y) ELSE AddFinite(y, x)

FSub(x, y) == FAdd(x, -y)

\* The integer part of x, toward zero, as cvttss2si of x86-64 yields it:
\* outside the range of int, and for a NaN, the most negative int.
TruncMag(m, e) ==
    IF e >= 0 THEN IF BitLen(m) + e > 31 THEN -1 ELSE m * 2 ^ e
    ELSE IF -e > 30 THEN 0 ELSE m \div 2 ^ (-e)

ToInt(x) ==
    IF Abs(x) >= INF \/ TruncMag(Mant(Abs(x)), Expo(Abs(x))) < 0
    THEN -INT_MAX - 1
    ELSE Sgn(x) * TruncMag(Mant(Abs(x)), Expo(Abs(x)))

\* x < y and x <= y on floats: false when either is a NaN.
FLess(x, y) == ~IsNaN(x) /\ ~IsNaN(y) /\ x < y
FLeq(x, y) == ~IsNaN(x) /\ ~IsNaN(y) /\ x <= y

\* sqrt: the root of the 26-bit radicand m taken with 13 further pairs of
\* zero bits, one bit of the root per pair; r is the remainder.
SqrtStep(st, pair) ==
    IF st.r * 4 + pair >= st.q * 4 + 1
    THEN [q |-> st.q * 2 + 1, r |-> st.r * 4 + pair - (st.q * 4 + 1)]
    ELSE [q |-> st.q * 2, r |-> st.r * 4 + pair]

\* Pairs hi down to lo of the radicand; the upper half is finished before
\* the lower half is begun.
RECURSIVE SqrtRun(_, _, _, _)
SqrtThen(st, m, hi, lo) == IF st.q >= 0 THEN SqrtRun(m, hi, lo, st) ELSE st

SqrtRun(m, hi, lo, st) ==
    IF hi = lo
    THEN SqrtStep(st, IF hi >= 13 THEN (m \div 4 ^ (hi - 13)) % 4 ELSE 0)
    ELSE SqrtThen(SqrtRun(m, hi, (hi + lo - 1) \div 2 + 1, st),
                  m, (hi + lo - 1) \div 2, lo)

SqrtPack(st, e) == Pack(1, st.q, e, IF st.r = 0 THEN 0 ELSE 1)

SqrtNorm(m, e) ==
    IF e % 2 = 0 THEN SqrtPack(SqrtRun(m, 25, 0, [q |-> 0, r |-> 0]),
                               e \div 2 - 13)
    ELSE SqrtPack(SqrtRun(m * 2, 25, 0, [q |-> 0, r |-> 0]),
                  (e - 1) \div 2 - 13)

\* (float) sqrt(x) for a float x: the double root of a float, rounded to
\* float, is the correctly rounded single root.
FSqrt(x) ==
    IF IsNaN(x) \/ x < 0 THEN NAN
    ELSE IF x = 0 \/ x = INF THEN x
    ELSE SqrtNorm(Mant(x) * 2 ^ (24 - BitLen(Mant(x))),
                  Expo(x) - (24 - BitLen(Mant(x))))

\* modff: the integral part (toward zero) and the fraction of x.
TruncBits(p) ==
    IF p \div HIDDEN < 127 THEN 0
    ELSE IF p \div HIDDEN >= 150 THEN p
    ELSE p - (p % (2 ^ (150 - p \div HIDDEN)))

FTrunc(x) == IF IsNaN(x) THEN NAN ELSE Sgn(x) * TruncBits(Abs(x))
FFrac(x) == IF IsNaN(x) THEN NAN ELSE IF IsInf(x) THEN 0 ELSE FSub(x, FTrunc(x))

\* fmin: the smaller operand; a NaN operand yields the other one.
FMin(x, y) == IF IsNaN(x) THEN y ELSE IF IsNaN(y) THEN x ELSE Min(x, y)

\* ---- Wide naturals: little-endian sequences of 14-bit limbs.  They carry
\* the steps the code takes in double precision.
BASE == 2 ^ 14

Limb(a, i) == IF i >= 1 /\ i <= Len(a) THEN a[i] ELSE 0

\* Carry propagation over the columns of a sum or product.  acc holds the
\* limbs settled so far, followed by the running carry (or borrow).
WPut(acc, v) ==
    SubSeq(acc, 1, Len(acc) - 1)
    \o <<(v + acc[Len(acc)]) % BASE, (v + acc[Len(acc)]) \div BASE>>

RECURSIVE WCarry(_, _)
WCarry(cols, acc) ==
    IF Len(acc) > Len(cols) /\ acc[Len(acc)] < BASE
    THEN IF acc[Len(acc)] = 0 THEN SubSeq(acc, 1, Len(acc) - 1) ELSE acc
    ELSE WCarry(cols, WPut(acc, Limb(cols, Len(acc))))

WAdd(a, b) ==
    WCarry([i \in 1..Max(Len(a), Len(b)) |-> Limb(a, i) + Limb(b, i)], <<0>>)

\* a - b for a >= b.
WSub(a, b) ==
    WCarry([i \in 1..Max(Len(a), Len(b)) |-> Limb(a, i) - Limb(b, i)], <<0>>)

\* a * b for a of at most three limbs.
WMul(a, b) ==
    WCarry([k \in 1..(Len(b) + 3) |->
               Limb(a, 1) * Limb(b, k) + Limb(a, 2) * Limb(b, k - 1)
               + Limb(a, 3) * Limb(b, k - 2)], <<0>>)

RECURSIVE WCmpAt(_, _, _)
WCmpAt(a, b, i) ==
    IF i = 0 THEN 0
    ELSE IF Limb(a, i) # Limb(b, i) THEN Sgn(Limb(a, i) - Limb(b, i))
    ELSE WCmpAt(a, b, i - 1)

WCmp(a, b) == WCmpAt(a, b, Max(Len(a), Len(b)))

RECURSIVE WTop(_, _)
WTop(a, i) ==
    IF i = 0 THEN 0
    ELSE IF a[i] # 0 THEN (i - 1) * 14 + BitLen(a[i])
    ELSE WTop(a, i - 1)

WBitLen(a) == WTop(a, Len(a))

WShl(a, n) ==
    [i \in 1..(Len(a) + n \div 14 + 1) |->
        ((Limb(a, i - n \div 14) * 2 ^ (n % 14)) % BASE)
        + Limb(a, i - 1 - n \div 14) \div 2 ^ (14 - (n % 14))]

WShr(a, n) ==
    [i \in 1..Max(Len(a) - n \div 14, 0) |->
        Limb(a, i + n \div 14) \div 2 ^ (n % 14)
        + (Limb(a, i + 1 + n \div 14) % (2 ^ (n % 14))) * 2 ^ (14 - (n % 14))]

\* Bit n of a, and whether any of the n lowest bits of a is set.
WBit(a, n) == (Limb(a, n \div 14 + 1) \div 2 ^ (n % 14)) % 2

WLow(a, n) ==
    \E i \in 1..Len(a) :
        \/ i <= n \div 14 /\ a[i] # 0
        \/ i = n \div 14 + 1 /\ a[i] % (2 ^ (n % 14)) # 0

WInt(a) == Limb(a, 1) + Limb(a, 2) * BASE + Limb(a, 3) * BASE * BASE

WFrom(n) == <<n % BASE, (n \div BASE) % BASE, n \div (BASE * BASE)>>

\* a \div d for a small d, from the top limb down.  st holds the running
\* remainder, followed by the quotient limbs found so far.
WDivPut(st, v, d) ==
    <<(st[1] * BASE + v) % d, (st[1] * BASE + v) \div d>> \o Tail(st)

RECURSIVE WDivAt(_, _, _)
WDivAt(a, d, st) ==
    IF Len(st) > Len(a) THEN Tail(st)
    ELSE WDivAt(a, d, WDivPut(st, a[Len(a) + 1 - Len(st)], d))

WDivSmall(a, d) == WDivAt(a, d, <<0>>)

\* The 53-bit significand of the double nearest n, which has len bits.
WDouble(n, len) ==
    IF len <= 53 THEN WShl(n, 53 - len)
    ELSE IF WBit(n, len - 54) = 1
            /\ (WLow(n, len - 54) \/ WBit(n, len - 53) = 1)
         THEN WAdd(WShr(n, len - 53), <<1>>)
         ELSE WShr(n, len - 53)

\* The float nearest the double s * t * 2^e.
FromDouble(s, t, e) ==
    Pack(s, WInt(WShr(t, 28)), e + 28, IF WLow(t, 28) THEN 1 ELSE 0)

\* (float) of the double nearest s * n * 2^e: the value is rounded twice.
WRound(s, n, e) ==
    IF WBitLen(n) = 0 THEN 0
    ELSE FromDouble(s, WDouble(n, WBitLen(n)), e - (53 - WBitLen(n)))

\* The float of the double sum sa * a * 2^e + sb * b * 2^e.
WSumAligned(sa, a, sb, b, e) ==
    IF sa = sb THEN WRound(sa, WAdd(a, b), e)
    ELSE IF WCmp(a, b) >= 0 THEN WRound(sa, WSub(a, b), e)
    ELSE WRound(sb, WSub(b, a), e)

WSum(sa, a, ea, sb, b, eb) ==
    WSumAligned(IF sa = 0 THEN sb ELSE sa, WShl(a, ea - Min(ea, eb)),
                sb, WShl(b, eb - Min(ea, eb)), Min(ea, eb))

\* M_PI is the double M_PI_D * 2^-51, and 0.001 the double EPS_D * 2^-62.
M_PI_D == <<11544, 4368, 8117, 1608>>
EPS_D == <<10748, 3014, 9437, 1048>>

\* (float) (x * M_PI * 2^sh) for a float x, the product taken in double.
TimesPi(x, sh) ==
    IF IsNaN(x) \/ IsInf(x) THEN x
    ELSE WRound(Sgn(x), WMul(WFrom(Mant(Abs(x))), M_PI_D),
                Expo(Abs(x)) - 51 + sh)

\* rayA + 2.0f * M_PI and rayA - 2.0f * M_PI, taken in double and stored
\* in a float.
PlusTwoPi(x, s) ==
    IF IsNaN(x) \/ IsInf(x) THEN x
    ELSE WSum(Sgn(x), WFrom(Mant(Abs(x))), Expo(Abs(x)), s, M_PI_D, -50)

\* (float) (n - 0.001) for an int n.
MinusEpsilon(n) ==
    IF n = -INT_MAX - 1 THEN -FromInt(INT_MAX)
    ELSE WSum(Sgn(n), WFrom(Abs(n)), 0, -1, EPS_D, -62)

\* ---- sin, cos and tan of an angle of at most 2 pi in magnitude, as libm
\* computes them in double: fixed point with FRAC fraction bits in six
\* limbs, the sixth being the integer part.
FRAC == 5 * 14
ONE_W == <<0, 0, 0, 0, 0, 1>>
PIO4 == <<3377, 10434, 2181, 15786, 12867, 0>>
PIO2 == <<6754, 4484, 4363, 15188, 9351, 1>>
PI == <<13509, 8968, 8726, 13992, 2319, 3>>
PI3O2 == <<3879, 13453, 13089, 12796, 11671, 4>>
TWOPI == <<10634, 1553, 1069, 11601, 4639, 6>>
EPSILON == WShl(EPS_D, FRAC - 62)

WPad(a) ==
    <<Limb(a, 1), Limb(a, 2), Limb(a, 3), Limb(a, 4), Limb(a, 5), Limb(a, 6)>>

\* The fixed-point value of a float magnitude below 2^14.
WFix(p) ==
    IF Expo(p) + FRAC >= 0 THEN WPad(WShl(WFrom(Mant(p)), Expo(p) + FRAC))
    ELSE WPad(WShr(WFrom(Mant(p)), -(Expo(p) + FRAC)))

\* Between two carry propagations the limbs of a fixed-point value may
\* leave 0..BASE-1: Settle passes every limb's excess on to the next limb,
\* and two passes bring the columns of a product to within -9..BASE+8.
Settle(x) ==
    <<x[1] % BASE, (x[2] % BASE) + x[1] \div BASE,
      (x[3] % BASE) + x[2] \div BASE, (x[4] % BASE) + x[3] \div BASE,
      (x[5] % BASE) + x[4] \div BASE, x[6] + x[5] \div BASE>>

\* The columns of a * b that reach the six limbs kept; of the columns
\* below them the upper two supply the carry.
FixMulCols(a, b) ==
    <<((a[1] * b[6] + a[2] * b[5]) + (a[3] * b[4] + a[4] * b[3]))
        + ((a[5] * b[2] + a[6] * b[1])
           + (((a[1] * b[5] + a[2] * b[4]) + (a[3] * b[3] + a[4] * b[2])
               + a[5] * b[1]
               + ((a[1] * b[4] + a[2] * b[3]) + (a[3] * b[2] + a[4] * b[1]))
                 \div BASE) \div BASE)),
      ((a[2] * b[6] + a[3] * b[5]) + (a[4] * b[4] + a[5] * b[3]))
        + a[6] * b[2],
      (a[3] * b[6] + a[4] * b[5]) + (a[5] * b[4] + a[6] * b[3]),
      (a[4] * b[6] + a[5] * b[5]) + a[6] * b[4],
      a[5] * b[6] + a[6] * b[5],
      a[6] * b[6]>>

FixDiff(x, y) ==
    <<x[1] - y[1], x[2] - y[2], x[3] - y[3], x[4] - y[4], x[5] - y[5],
      x[6] - y[6]>>

FixMul(a, b) == Settle(Settle(FixMulCols(a, b)))

\* c - a * b
FixMulSub(c, a, b) == Settle(Settle(FixDiff(c, FixMulCols(a, b))))

\* The limbs of x brought back into 0..BASE-1.
Canon(x) == WCarry(x, <<0>>)

\* 1, 1/(n(n+1)), 1/(n(n+1)(n+2)(n+3)), ...: the coefficients 1/k! of the
\* series of sin (from n = 2) and of cos (from n = 1).
RECURSIVE Series(_, _, _)
Series(acc, n, last) ==
    IF n > last THEN acc
    ELSE Series(Append(acc, WDivSmall(acc[Len(acc)], n * (n + 1))),
                n + 2, last)

SinCoef == Series(<<ONE_W>>, 2, 20)
CosCoef == Series(<<ONE_W>>, 1, 21)

\* coef[1] - z (coef[2] - z (coef[3] - ...)); st is the index of the next
\* coefficient to enter and the value reached so far.
RECURSIVE Horner(_, _, _)
Horner(coef, z, st) ==
    IF st[1] = 0 THEN st[2]
    ELSE Horner(coef, z, <<st[1] - 1, FixMulSub(coef[st[1]], z, st[2])>>)

Poly(coef, z) == Horner(coef, z, <<Len(coef) - 1, coef[Len(coef)]>>)

\* sin t and cos t for t in [0, pi/4].
SinSeries(t) == Canon(FixMul(t, Poly(SinCoef, FixMul(t, t))))
CosSeries(t) == Canon(Poly(CosCoef, FixMul(t, t)))

\* An angle r in [0, pi/2] brought into [0, pi/4]: `swap' says that the
\* sine of the angle is the cosine of t and the other way round; sn and cn
\* are the signs of the sine and the cosine.
Octant(r, sn, cn, swap) ==
    IF WCmp(r, PIO4) > 0
    THEN [t |-> WSub(PIO2, r), sn |-> sn, cn |-> cn, swap |-> ~swap]
    ELSE [t |-> WPad(r), sn |-> sn, cn |-> cn, swap |-> swap]

Quadrant(a, sign) ==
    IF WCmp(a, PIO2) < 0 THEN Octant(a, sign, 1, FALSE)
    ELSE IF WCmp(a, PI) < 0 THEN Octant(WSub(a, PIO2), sign, -1, TRUE)
    ELSE IF WCmp(a, PI3O2) < 0 THEN Octant(WSub(a, PI), -sign, -1, FALSE)
    ELSE IF WCmp(a, TWOPI) < 0 THEN Octant(WSub(a, PI3O2), -sign, 1, TRUE)
    ELSE Octant(WSub(a, TWOPI), sign, 1, FALSE)

Reduce(x) == Quadrant(WFix(Abs(x)), IF x < 0 THEN -1 ELSE 1)

SinOf(red) == IF red.swap THEN CosSeries(red.t) ELSE SinSeries(red.t)
CosOf(red) == IF red.swap THEN SinSeries(red.t) ELSE CosSeries(red.t)

\* The signs and magnitudes of sin x and cos x.
TrigOf(red) == [sn |-> red.sn, s |-> SinOf(red), cn |-> red.cn, c |-> CosOf(red)]
Trig(x) == TrigOf(Reduce(x))

\* The sign and magnitude of cos x alone.
CosineOf(red) == [cn |-> red.cn, c |-> CosOf(red)]
Cosine(x) == CosineOf(Reduce(x))

\* sin(x) > 0.001 (1), sin(x) < -0.001 (-1) or neither (0); the same for cos.
SinClass(x, t) ==
    IF IsNaN(x) \/ WCmp(t.s, EPSILON) <= 0 THEN 0 ELSE t.sn
CosClass(x, t) ==
    IF IsNaN(x) \/ WCmp(t.c, EPSILON) <= 0 THEN 0 ELSE t.cn

\* 1/b for b in [1/2, 1): each step x (2 - b x) doubles the number of
\* good bits of x, and the first x has twelve.  st is the number of steps
\* left and the x reached.
RecipStep(b, x) ==
    FixMul(x, Settle(FixDiff(<<0, 0, 0, 0, 0, 2>>, FixMul(b, x))))

RECURSIVE RecipRun(_, _)
RecipRun(b, st) ==
    IF st[1] = 0 THEN st[2]
    ELSE RecipRun(b, <<st[1] - 1, RecipStep(b, st[2])>>)

Recip(b) ==
    RecipRun(b, <<3, <<0, 0, 0, 0, (2 ^ 28 \div b[5]) % BASE,
                       (2 ^ 28 \div b[5]) \div BASE>>>>)

\* v * 2^n (n may be negative) in six limbs.
WScale(v, n) == IF n >= 0 THEN WPad(WShl(v, n)) ELSE WPad(WShr(v, -n))

\* The float nearest s * q * 2^e for a wide q: its 28 leading bits, the
\* rest being sticky.
WPack(s, q, len, e) ==
    Pack(s, WInt(WShr(q, len - 28)), e + len - 28,
         IF WLow(q, len - 28) THEN 1 ELSE 0)

WQuotient(s, q, e) == WPack(s, q, WBitLen(q), e)

\* The float nearest s * a / b: both are scaled into [1/2, 1).
WDivAligned(s, a, la, b, lb) ==
    WQuotient(s, Canon(FixMul(WScale(a, FRAC - la),
                              Recip(WScale(b, FRAC - lb)))),
              la - lb - FRAC)

WDivRound(s, a, b) ==
    IF WBitLen(b) = 0 THEN s * INF
    ELSE IF WBitLen(a) = 0 THEN 0
    ELSE WDivAligned(s, a, WBitLen(a), b, WBitLen(b))

\* (float) tan(x): below 2^-12 the tangent rounds to its argument.
Tan(x, t) ==
    IF IsNaN(x) \/ IsInf(x) THEN NAN
    ELSE IF Abs(x) < (127 - 12) * HIDDEN THEN x
    ELSE WDivRound(t.sn * t.cn, t.s, t.c)

\* (float) (x * cos), the cosine a double and the product taken in double.
MulCos(x, t) ==
    IF IsNaN(x) THEN NAN
    ELSE IF IsInf(x) THEN x * t.cn
    ELSE WRound(Sgn(x) * t.cn,
                WMul(WFrom(Mant(Abs(x))), WDouble(t.c, WBitLen(t.c))),
                Expo(Abs(x)) - FRAC - (53 - WBitLen(t.c)))

\* ---- atanf, as the C library computes it in float.
Ratio(a, b) == FDiv(FromInt(a), FromInt(b))
atanhi == <<1055744824, 1061752794, 1065064542, 1070141402>>
atanlo == <<833369961, 857874792, 856952756, 866263400>>
aT == <<1051372203, -1045220557, 1041385765, -1038323256, 1035611758,
        -1033734037, 1032350517, -1030680939, 1028381273, -1024827937,
        1015376343>>

\* aT[k] + w (aT[k+2] + w (aT[k+4] + ...)); st is the index of the next
\* coefficient to enter and the value reached so far.
RECURSIVE AtanHorner(_, _)
AtanHorner(w, st) ==
    IF st[1] < 1 THEN st[2]
    ELSE AtanHorner(w, <<st[1] - 2, FAdd(aT[st[1]], FMul(w, st[2]))>>)

AtanOdd(z, w) == FMul(z, AtanHorner(w, <<9, aT[11]>>))

AtanEven(w) == FMul(w, AtanHorner(w, <<8, aT[10]>>))

AtanSum(z) == FAdd(AtanOdd(z, FMul(z, z)), AtanEven(FMul(z, z)))

AtanReduced(x, id) ==
    FSub(atanhi[id], FSub(FSub(FMul(x, AtanSum(FMul(x, x))), atanlo[id]), x))

AtanAbs(x) ==
    IF x < Ratio(11, 16)
    THEN AtanReduced(FDiv(FSub(FMul(FromInt(2), x), FromInt(1)),
                          FAdd(FromInt(2), x)), 1)
    ELSE IF x < Ratio(19, 16)
    THEN AtanReduced(FDiv(FSub(x, FromInt(1)), FAdd(x, FromInt(1))), 2)
    ELSE IF x < Ratio(39, 16)
    THEN AtanReduced(FDiv(FSub(x, Ratio(3, 2)),
                          FAdd(FromInt(1), FMul(Ratio(3, 2), x))), 3)
    ELSE AtanReduced(-FDiv(FromInt(1), x), 4)

atanf(x) ==
    IF IsNaN(x) THEN NAN
    ELSE IF Abs(x) >= (127 + 25) * HIDDEN
    THEN Sgn(x) * FAdd(atanhi[4], atanlo[4])
    ELSE IF Abs(x) < (127 - 29) * HIDDEN THEN x
    ELSE IF Abs(x) < Ratio(7, 16) THEN FSub(x, FMul(x, AtanSum(FMul(x, x))))
    ELSE Sgn(x) * AtanAbs(Abs(x))

\* ------------------------------------------------------------------------
\* Program constants
\* ------------------------------------------------------------------------
SCREEN_WIDTH == 320
SCREEN_HEIGHT == 200
HORIZON_HEIGHT == SCREEN_HEIGHT \div 2
MAP_X == 64
MAP_Y == 64
MAP_XS == 6
INV_FACTOR == 288                       \* SCREEN_WIDTH * 0.9
maxDepth == 100

\* ------------------------------------------------------------------------
\* The map: MAP_X * MAP_Y / 8 bytes.  The shipped table is not part of the
\* sources at hand, so a run picks one of a few byte patterns.
\* ------------------------------------------------------------------------
MapByte(id, i) ==
    CASE id = 0 -> (i * 37 + 129) % 256
      [] id = 1 -> 0
      [] id = 2 -> IF i % 8 = 0 THEN 255 ELSE 128
      [] OTHER -> 255

\* b & m for a byte b and a one-bit mask m (m = 256 selects no bit of a byte).
BitAnd(b, m) == IF (b \div m) % 2 = 1 THEN m ELSE 0

\* ------------------------------------------------------------------------
\* RayCasterFloatIsWall
\* ------------------------------------------------------------------------
IsWallTile(tileX, tileY, map) ==
    IF tileX < 0 \/ tileY < 0 \/ tileX >= MAP_X - 1 \/ tileY >= MAP_Y - 1
    THEN TRUE
    ELSE BitAnd(MapByte(map, (tileX \div 8) + tileY * (2 ^ (MAP_XS - 3))),
                2 ^ (8 - (tileX % 8))) # 0

\* (int) x for a float x.  Inside the range of int it is the integer part;
\* outside it, and for a NaN, the conversion is undefined and the build
\* decides what it yields:
\*   "wrap"      the most negative int (x86-64, cvttss2si);
\*   "saturate"  0 for a NaN, else the nearest end of the range (AArch64,
\*               fcvtzs).
IntOf(x, mode) ==
    IF mode = "wrap" THEN ToInt(x)
    ELSE IF IsNaN(x) THEN 0
    ELSE IF x >= (127 + 31) * HIDDEN THEN INT_MAX
    ELSE ToInt(x)

\* n + 1 in an int; past the largest int the sum is undefined and the add
\* instruction of either build wraps it round.
IntSucc(n) == IF n = INT_MAX THEN -INT_MAX - 1 ELSE n + 1

RayCasterFloatIsWall(rayX, rayY, map, mode) ==
    IsWallTile(IntOf(FTrunc(rayX), mode), IntOf(FTrunc(rayY), mode), map)

\* ------------------------------------------------------------------------
\* RayCasterFloatDistance
\* ------------------------------------------------------------------------
\* 2.0f * M_PI is a double that lies between two neighbouring floats;
\* TWO_PI_UP is the upper one, 0x40c90fdb, so that a float is at least
\* 2.0f * M_PI exactly when it is at least TWO_PI_UP.
TWO_PI_UP == 1086918619

\* The guards of the two normalisation loops: rayA < 0 (dir = 1) and
\* rayA >= 2.0f * M_PI (dir = -1).
NormMore(rayA, dir) ==
    IF dir = 1 THEN FLess(rayA, 0) ELSE FLeq(TWO_PI_UP, rayA)

\* The body of a loop has made the angle a; an angle the body leaves as it
\* was stays in the loop for ever.
NormMove(s, a) ==
    IF a = s.a THEN [s EXCEPT !.hung = TRUE]
    ELSE [s EXCEPT !.a = a, !.n = @ + 1]

\* One test of a loop's guard and, if it holds, one execution of its body.
NormStep(s, dir) ==
    IF NormMore(s.a, dir) THEN NormMove(s, PlusTwoPi(s.a, dir)) ELSE s

\* n steps, the first half before the second.
RECURSIVE NormRun(_, _, _)
NormRun(s, dir, n) ==
    IF s.hung THEN s
    ELSE IF n <= 1 THEN NormStep(s, dir)
    ELSE NormRun(NormRun(s, dir, n \div 2), dir, n - n \div 2)

\* Steps until the guard fails, in runs of n, 2n, 4n, ...
RECURSIVE NormLoop(_, _, _)
NormLoop(s, dir, n) ==
    IF s.hung \/ ~NormMore(s.a, dir) THEN s
    ELSE NormLoop(NormRun(s, dir, n), dir, 2 * n)

\* while (rayA < 0) rayA += 2.0f * M_PI;  n counts the iterations.
NormUp(rayA) ==
    NormLoop([a |-> rayA, n |-> 0, up |-> 0, hung |-> FALSE], 1, 1)

\* while (rayA >= 2.0f * M_PI) rayA -= 2.0f * M_PI;  `up' keeps the
\* iterations the first loop made.
NormDown(s) == NormLoop([s EXCEPT !.up = s.n], -1, 1)

\* Both loops: the normalised angle, the iterations the two made, and
\* whether one of them never ends.
Normalise(rayA) == NormDown(NormUp(rayA))

\* The depth at which the guard `depth < maxDepth' of both search loops
\* fails; with `<=' for `<' it would be one more.
DepthLimitInclusive == maxDepth + 1

DepthLimit == maxDepth

\* One test of the search loop's guard and, if it holds, one execution of
\* its body: a wall ends the loop, anything else moves the ray on.  `iters'
\* counts the executions, `path' lists the points handed to IsWall.
SearchStep(s, xOffset, yOffset, map, mode) ==
    IF s.hit \/ s.depth >= DepthLimit THEN s
    ELSE IF RayCasterFloatIsWall(s.rayX, s.rayY, map, mode)
    THEN [s EXCEPT !.hit = TRUE, !.iters = @ + 1,
                   !.path = Append(@, <<s.rayX, s.rayY>>)]
    ELSE [rayX |-> FAdd(s.rayX, xOffset), rayY |-> FAdd(s.rayY, yOffset),
          depth |-> s.depth + 1, hit |-> FALSE, iters |-> s.iters + 1,
          path |-> Append(s.path, <<s.rayX, s.rayY>>)]

\* n steps, the first half before the second.
RECURSIVE SearchRun(_, _, _, _, _, _)
SearchRun(s, xOffset, yOffset, map, mode, n) ==
    IF s.hit THEN s
    ELSE IF n <= 1 THEN SearchStep(s, xOffset, yOffset, map, mode)
    ELSE SearchRun(SearchRun(s, xOffset, yOffset, map, mode, n \div 2),
                   xOffset, yOffset, map, mode, n - n \div 2)

\* while (depth < maxDepth) { if (IsWall(rayX, rayY)) { hit; break; }
\*                            else { rayX += xOffset; rayY += yOffset; depth += 1; } }
\* entered with the given depth.
Search(rayX, rayY, xOffset, yOffset, depth, map, mode) ==
    SearchRun([rayX |-> rayX, rayY |-> rayY, depth |-> depth,
               hit |-> FALSE, iters |-> 0, path |-> << >>],
              xOffset, yOffset, map, mode, DepthLimit - depth)

\* P2P_DISTANCE: sqrt((float) (dx * dx + dy * dy)), stored in a float.
Hypot(dx, dy) == FSqrt(FAdd(FMul(dx, dx), FMul(dy, dy)))

P2P_DISTANCE(x1, y1, x2, y2) == Hypot(FSub(x1, x2), FSub(y1, y2))

\* if (hit) hitDis = P2P_DISTANCE(playerX, playerY, rayX, rayY);  hitDis
\* was initialised to 0.
HitDistance(playerX, playerY, skipped, s) ==
    [search |-> s, skipped |-> skipped,
     hitDis |-> IF s.hit THEN P2P_DISTANCE(playerX, playerY, s.rayX, s.rayY)
                ELSE 0]

\* The vertical search from its first grid line rayX, lines 151-154 or
\* 157-160 and 171-182.
VerticalFrom(playerX, playerY, rayX, xOffset, cotA, map, mode) ==
    HitDistance(playerX, playerY, FALSE,
                Search(rayX, FAdd(FMul(FSub(rayX, playerX), cotA), playerY),
                       xOffset, FMul(xOffset, cotA), 0, map, mode))

\* Lines 146-183: the search along the vertical grid lines.  sinA is 1 for
\* sin(rayA) > 0.001, -1 for sin(rayA) < -0.001 and 0 otherwise.
VerticalSearch(playerX, playerY, sinA, cotA, map, mode) ==
    IF sinA > 0
    THEN VerticalFrom(playerX, playerY,
                      FromInt(IntSucc(IntOf(playerX, mode))),
                      FromInt(1), cotA, map, mode)
    ELSE IF sinA < 0
    THEN VerticalFrom(playerX, playerY, MinusEpsilon(IntOf(playerX, mode)),
                      FromInt(-1), cotA, map, mode)
    ELSE HitDistance(playerX, playerY, TRUE,
                     Search(playerX, playerY, 0, 0, maxDepth, map, mode))

\* The horizontal search from its first grid line rayY, lines 190-193 or
\* 196-199 and 208-218.
HorizontalFrom(playerX, playerY, rayY, yOffset, tanA, map, mode) ==
    HitDistance(playerX, playerY, FALSE,
                Search(FAdd(FMul(FSub(rayY, playerY), tanA), playerX), rayY,
                       FMul(yOffset, tanA), yOffset, 0, map, mode))

\* Lines 185-218: the search along the horizontal grid lines.  cosA is 1
\* for cos(rayA) > 0.001, -1 for cos(rayA) < -0.001 and 0 otherwise.
HorizontalSearch(playerX, playerY, cosA, tanA, map, mode) ==
    IF cosA > 0
    THEN HorizontalFrom(playerX, playerY,
                        FromInt(IntSucc(IntOf(playerY, mode))),
                        FromInt(1), tanA, map, mode)
    ELSE IF cosA < 0
    THEN HorizontalFrom(playerX, playerY, MinusEpsilon(IntOf(playerY, mode)),
                        FromInt(-1), tanA, map, mode)
    ELSE HitDistance(playerX, playerY, TRUE,
                     Search(playerX, playerY, 0, 0, maxDepth, map, mode))

\* The selection after both searches, lines 220-234: which hit is reported
\* and the distance returned (fmin of the two).
SelectHit(vertHitDis, horiHitDis, vx, vy, rayX, rayY) ==
    IF FLess(vertHitDis, horiHitDis)
    THEN [hitDirection |-> 1, hitOffset |-> vy,
          lineDistance |-> FMin(vertHitDis, horiHitDis)]
    ELSE [hitDirection |-> 0, hitOffset |-> rayX,
          lineDistance |-> FMin(vertHitDis, horiHitDis)]

\* What RayCasterFloatDistance returns and stores through its pointers,
\* with a record of the two searches behind it.
DistanceResult(sel, vert, hori, norm) ==
    [hung |-> FALSE,
     lineDistance |-> sel.lineDistance,
     hitOffset |-> sel.hitOffset,
     hitDirection |-> sel.hitDirection,
     vertHitDis |-> vert.hitDis, horiHitDis |-> hori.hitDis,
     vertSkipped |-> vert.skipped, horiSkipped |-> hori.skipped,
     vertHit |-> vert.search.hit, horiHit |-> hori.search.hit,
     vertDepth |-> vert.search.depth, horiDepth |-> hori.search.depth,
     vertIters |-> vert.search.iters, horiIters |-> hori.search.iters,
     vx |-> vert.search.rayX, vy |-> vert.search.rayY,
     hx |-> hori.search.rayX, hy |-> hori.search.rayY,
     rayA |-> norm.a, normIters |-> norm.n, normDown |-> norm.n - norm.up,
     vertPath |-> vert.search.path, horiPath |-> hori.search.path]

DistanceSelect(vert, hori, norm) ==
    DistanceResult(SelectHit(vert.hitDis, hori.hitDis,
                             vert.search.rayX, vert.search.rayY,
                             hori.search.rayX, hori.search.rayY),
                   vert, hori, norm)

\* Lines 138-234 once the signs and the tangent of the normalised angle are
\* known: cotA = 1 / tanA.
DistanceSlopes(playerX, playerY, sl, norm, map, mode) ==
    DistanceSelect(VerticalSearch(playerX, playerY, sl.sinA,
                                  FDiv(FromInt(1), sl.tanA), map, mode),
                   HorizontalSearch(playerX, playerY, sl.cosA, sl.tanA, map,
                                    mode),
                   norm)

\* sinA and cosA are the outcomes of the guards on sin(rayA) and cos(rayA),
\* and tanA = tan(rayA).
DistanceAlong(playerX, playerY, rayA, t, norm, map, mode) ==
    DistanceSlopes(playerX, playerY,
                   [sinA |-> SinClass(rayA, t), cosA |-> CosClass(rayA, t),
                    tanA |-> Tan(rayA, t)],
                   norm, map, mode)

\* A call whose normalisation never ends does not return.
DistanceAt(playerX, playerY, norm, map, mode) ==
    IF norm.hung THEN [hung |-> TRUE]
    ELSE DistanceAlong(playerX, playerY, norm.a, Trig(norm.a), norm, map,
                       mode)

RayCasterFloatDistance(playerX, playerY, rayA, map, mode) ==
    DistanceAt(playerX, playerY, Normalise(rayA), map, mode)

\* ------------------------------------------------------------------------
\* RayCasterFloatTrace
\* ------------------------------------------------------------------------
\* (int16_t) x for a 16-bit unsigned x.
Int16(x) == IF x >= 32768 THEN x - 65536 ELSE x

\* (uint8_t) x and (uint16_t) x for a float x: the fraction is dropped.  A
\* value outside the target's range makes the conversion undefined, and
\* the build decides what is stored:
\*   "wrap"      the value is converted to a signed 32-bit integer, which
\*               gives the most negative one outside its range and for a
\*               NaN, and the low bits are kept (x86-64, cvttss2si);
\*   "saturate"  the value is converted to an unsigned 32-bit integer,
\*               which gives 0 for a negative value and for a NaN and
\*               2^32 - 1 from 2^32 on, and the low bits are kept (AArch64,
\*               fcvtzu).
\* In range the two agree.  A float in [2^31, 2^32) is 2^8 times its
\* mantissa.
NarrowU(x, bits, mode) ==
    IF mode = "wrap" THEN ToInt(x) % (2 ^ bits)
    ELSE IF IsNaN(x) \/ x < 0 THEN 0
    ELSE IF x >= (127 + 32) * HIDDEN THEN 2 ^ bits - 1
    ELSE IF x >= (127 + 31) * HIDDEN
    THEN ((Mant(x) % 256) * 256) % (2 ^ bits)
    ELSE ToInt(x) % (2 ^ bits)

\* atanf(((int16_t) screenX - SCREEN_WIDTH / 2.0f) / (SCREEN_WIDTH / 2.0f) * M_PI / 4)
DeltaAngle(screenX) ==
    atanf(TimesPi(FDiv(FSub(FromInt(Int16(screenX)),
                            FDiv(FromInt(SCREEN_WIDTH), FromInt(2))),
                       FDiv(FromInt(SCREEN_WIDTH), FromInt(2))),
                  -2))

\* 256.0f * modff(hitOffset, &dum), before it is narrowed to 8 bits.
TextureXValue(hitOffset) == FMul(FromInt(256), FFrac(hitOffset))

\* Lines 273-276: textureX and textureNo from the hit, textureY and
\* textureStep cleared, written over the previous contents `prev' of the
\* caller's locations.
TextureOutputsStale(prev, hitOffset, hitDirection, mode) ==
    [prev EXCEPT
       !.textureX = NarrowU(TextureXValue(hitOffset), 8, mode),
       !.textureNo = hitDirection]

TextureOutputs(prev, hitOffset, hitDirection, mode) ==
    [prev EXCEPT
       !.textureX = NarrowU(TextureXValue(hitOffset), 8, mode),
       !.textureNo = hitDirection,
       !.textureY = 0,
       !.textureStep = 0]

\* wallHeight * (256 / txs) * 256 with wallHeight = (txs - SCREEN_HEIGHT) / 2.
CroppedRows(txs, step) ==
    FMul(FMul(FDiv(FSub(txs, FromInt(SCREEN_HEIGHT)), FromInt(2)), step),
         FromInt(256))

\* Lines 289-297, entered with txs != 0 and step = 256 / txs:
\*   *textureStep = (256 / txs) * 256;
\*   if (txs > SCREEN_HEIGHT) { wallHeight = (txs - SCREEN_HEIGHT) / 2;
\*       *textureY = wallHeight * (256 / txs) * 256;  *screenY = HORIZON_HEIGHT; }
StripOutputsUnclamped(o, txs, step, mode) ==
    IF FLess(FromInt(SCREEN_HEIGHT), txs)
    THEN [o EXCEPT !.textureStep = NarrowU(FMul(step, FromInt(256)), 16, mode),
                   !.textureY = NarrowU(CroppedRows(txs, step), 16, mode)]
    ELSE [o EXCEPT !.textureStep = NarrowU(FMul(step, FromInt(256)), 16, mode)]

StripOutputs(o, txs, step, mode) ==
    IF FLess(FromInt(SCREEN_HEIGHT), txs)
    THEN [o EXCEPT !.textureStep = NarrowU(FMul(step, FromInt(256)), 16, mode),
                   !.textureY = NarrowU(CroppedRows(txs, step), 16, mode),
                   !.screenY = HORIZON_HEIGHT]
    ELSE [o EXCEPT !.textureStep = NarrowU(FMul(step, FromInt(256)), 16, mode)]

\* Lines 286-298: txs = tmp * 2.0f;  if (txs != 0) { ... }
ProjectStrip(o, distance, tmp, txs, mode) ==
    [out |-> IF txs # 0
             THEN StripOutputs(o, txs, FDiv(FromInt(256), txs), mode)
             ELSE o,
     distance |-> distance, tmp |-> tmp, txs |-> txs]

\* Lines 282-286: tmp = INV_FACTOR / distance;  *screenY = tmp;
ProjectWall(o, distance, tmp, mode) ==
    ProjectStrip([o EXCEPT !.screenY = NarrowU(tmp, 8, mode)],
                 distance, tmp, FMul(tmp, FromInt(2)), mode)

\* Lines 279-301: if (distance > 0) { ... } else { *screenY = 0; }
ProjectDistance(o, distance, mode) ==
    IF FLess(0, distance)
    THEN ProjectWall(o, distance, FDiv(FromInt(INV_FACTOR), distance), mode)
    ELSE [out |-> [o EXCEPT !.screenY = 0],
          distance |-> distance, tmp |-> 0, txs |-> 0]

\* Lines 269-301: the five outputs, and the distance, tmp and txs behind
\* them.  distance = lineDistance * cos(deltaAngle).
Project(prev, lineDistance, hitOffset, hitDirection, deltaAngle, mode) ==
    ProjectDistance(TextureOutputs(prev, hitOffset, hitDirection, mode),
                    MulCos(lineDistance, Cosine(deltaAngle)), mode)

\* The outputs of a Trace call that returns, the object `self' it leaves
\* behind (no line of Trace stores into it), and a record of the call.
TraceResult(self, screenX, d, p) ==
    [hung |-> FALSE,
     out |-> p.out,
     self |-> self,
     call |-> [traced |-> TRUE, screenX |-> screenX, repeat |-> FALSE,
               distance |-> p.distance, tmp |-> p.tmp, txs |-> p.txs,
               textureXValue |-> TextureXValue(d.hitOffset),
               search |-> d]]

TraceHit(prev, self, screenX, d, deltaAngle, mode) ==
    IF d.hung THEN [hung |-> TRUE]
    ELSE TraceResult(self, screenX, d,
                     Project(prev, d.lineDistance, d.hitOffset,
                             d.hitDirection, deltaAngle, mode))

TraceColumn(prev, self, screenX, deltaAngle, map, mode) ==
    TraceHit(prev, self, screenX,
             RayCasterFloatDistance(self.playerX, self.playerY,
                                    FAdd(self.playerA, deltaAngle), map,
                                    mode),
             deltaAngle, mode)

\* The whole of RayCasterFloatTrace.
RayCasterFloatTrace(prev, self, screenX, map, mode) ==
    TraceColumn(prev, self, screenX, DeltaAngle(screenX), map, mode)

\* ------------------------------------------------------------------------
\* RayCasterFloatStart
\* ------------------------------------------------------------------------
\* (playerX / 1024.0f) * 4.0f
StartCoordinate(c) == FMul(FDiv(FromInt(c), FromInt(1024)), FromInt(4))

\* (playerA / 1024.0f) * 2.0f * M_PI, the last product taken in double.
StartAngle(a) == TimesPi(FMul(FDiv(FromInt(a), FromInt(1024)), FromInt(2)), 0)

RayCasterFloatStart(playerX, playerY, playerA) ==
    [playerX |-> StartCoordinate(playerX % 65536),
     playerY |-> StartCoordinate(playerY % 65536),
     playerA |-> StartAngle(Int16(playerA % 65536))]

\* ------------------------------------------------------------------------
\* Bounds of the model and the inputs drawn within them
\* ------------------------------------------------------------------------
NumPoses == 4           \* poses a client passes to Start
NumCols == 2            \* screen columns a client traces
NumMaps == 2            \* byte patterns of the map
NumHostPoses == 3       \* poses the game state takes in the host

\* <<playerX, playerY, playerA>> as passed to Start.
PoseTable ==
    << <<384, 384, 0>>,         \* (1.5, 1.5), sin(rayA) = 0 in the centre column
       <<0, 16300, 32767>>,     \* on the map's edge, the largest angle, 32
                                \* turns above 0
       <<16000, 128, -32768>>,  \* the most negative angle, 32 turns below 0
       <<128, 128, 600>>,       \* (0.5, 0.5), rays leaving through y < 0
       <<128, 16000, -194>>,    \* (0.5, 62.5), rays leaving through x < 0
       <<384, 384, 128>>,       \* diagonal ray
       <<0, 16300, -4>>,        \* on the map's edge, just below angle 0
       <<40000, 300, 900>> >>   \* outside the map

Poses == {PoseTable[i] : i \in 1 .. Min(NumPoses, Len(PoseTable))}
\* screenX: the centre column, the two ends and two columns between.
Columns == {<<160, 0, 319, 100, 155>>[i] : i \in 1 .. Min(NumCols, 5)}
Maps == 0 .. (NumMaps - 1)
\* main never initialises `game', so a frame can find any 16-bit pose in
\* it; the host's poses are the first of the table, which hold the angle 0
\* and the two angles furthest from it.
HostPoses == {PoseTable[i] : i \in 1 .. Min(NumHostPoses, Len(PoseTable))}
CastModes == {"wrap", "saturate"}

\* What the caller's five output locations may hold before the first Trace.
InitialOutputs ==
    { [screenY |-> 0, textureNo |-> 0, textureX |-> 0,
       textureY |-> 0, textureStep |-> 0],
      [screenY |-> 255, textureNo |-> 255, textureX |-> 255,
       textureY |-> 65535, textureStep |-> 65535] }

\* malloc(sizeof(RayCasterFloat)) hands out a block whose three floats are
\* indeterminate until Start stores a pose: each may hold any of the 2^32
\* words, and what a recycled block holds changes from run to run.  The
\* words are not enumerated: a float that is Indeterminate stands for every
\* one of them.  Of what a block holds, a caller of Trace can tell one thing
\* without knowing the words, whether the call returns.  rayA = playerA +
\* deltaAngle is playerA itself once playerA is as large as 2^24, and the
\* loops of lines 129-134 change rayA by 2 pi per iteration unless its
\* magnitude is above 2^27, where floats lie 16 apart and rayA +/- 2 pi
\* rounds back to rayA.  So a playerA that is IndeterminateNear (any float
\* up to 2^27 in magnitude, or a NaN) lets every Trace return, and one that
\* is IndeterminateFar (any float above 2^27 in magnitude, the infinities
\* included) lets none return.
Indeterminate == "indeterminate"
IndeterminateNear == "indeterminate, at most 2^27 or a NaN"
IndeterminateFar == "indeterminate, above 2^27"

FreshBlocks ==
    {[playerX |-> Indeterminate, playerY |-> Indeterminate, playerA |-> a] :
        a \in {IndeterminateNear, IndeterminateFar}}

\* ------------------------------------------------------------------------
\* State
\* ------------------------------------------------------------------------
VARIABLES
    g_map,          \* the map in use (its pattern number)
    castMode,       \* how this build converts an out-of-range float
    derived,        \* the RayCasterFloat state: playerX, playerY, playerA,
                    \* Indeterminate between malloc and the first Start
    started,        \* Start has stored a pose into `derived'
    out,            \* the caller's screenY, textureNo, textureX, textureY,
                    \* textureStep
    last,           \* record of the latest Trace call since Start, if any;
                    \* `repeat': its column had been traced since Start
    seen,           \* per column, the outputs of its first Trace since Start
    startPose,      \* the pose in `derived' when the latest Start returned
                    \* (the fresh block's contents before any Start)
    pc,             \* the caller's position (main's, or "client"); "hung"
                    \* inside a Trace call that never returns
    heap,           \* per block: "none", "live" or "freed"
    frees,          \* per block: how often it was passed to free
    floatCaster,    \* main's floatCaster: "unset", "NULL" or "float"
    fixedCaster,    \* main's fixedCaster: "unset", "NULL" or "fixed"
    col,            \* the column RendererTraceFrame is at
    steps,          \* search-loop iterations of the frame being traced
    life,           \* per backend: "none", "constructed" or "destructed"
    destructs,      \* per backend: calls of its Destruct
    misuse,         \* a Start or Trace reached a backend not "constructed"
    allocFailed,    \* an allocation failed inside RayCasterFloatConstruct
    fault           \* "none", or "null_deref" once a NULL pointer was followed

vars == <<g_map, castMode, derived, started, out, last, seen, startPose,
          pc, heap, frees, floatCaster, fixedCaster, col, steps, life,
          destructs, misuse, allocFailed, fault>>

Blocks == {"floatBase", "floatDerived"}
Backends == {"float", "fixed"}
NoTrace == [traced |-> FALSE]

\* ------------------------------------------------------------------------
\* The backend's operations on the state
\* ------------------------------------------------------------------------
\* rayCaster->Start(rayCaster, playerX, playerY, playerA)
Start(playerX, playerY, playerA) ==
    /\ derived' = RayCasterFloatStart(playerX, playerY, playerA)
    /\ startPose' = derived'
    /\ started' = TRUE
    /\ last' = NoTrace
    /\ seen' = << >>
    /\ misuse' = (misuse \/ life["float"] # "constructed")
    /\ UNCHANGED <<g_map, castMode, out>>

\* The effect of a Trace call with result t on the caller: a call that
\* returns has written the five outputs and the caller goes on at `return';
\* a call that does not return has written nothing.  `last' and `seen'
\* record the calls since the latest Start.
Traced(screenX, t, return) ==
    IF t.hung
    THEN /\ pc' = "hung"
         /\ UNCHANGED <<out, derived, last, seen>>
    ELSE /\ pc' = return
         /\ out' = t.out
         /\ derived' = t.self
         /\ IF started
            THEN /\ last' = [t.call EXCEPT !.repeat = screenX \in DOMAIN seen]
                 /\ seen' = IF screenX \in DOMAIN seen THEN seen
                            ELSE [c \in DOMAIN seen \cup {screenX} |->
                                    IF c = screenX THEN t.out ELSE seen[c]]
            ELSE UNCHANGED <<last, seen>>

\* RayCasterFloatTrace on a block `self' that no Start has written: the
\* call does not return, or it returns with the five outputs computed from
\* the indeterminate pose, each of them some value of its type.
TraceIndeterminate(self) ==
    IF self.playerA = IndeterminateFar THEN [hung |-> TRUE]
    ELSE [hung |-> FALSE,
          out |-> [screenY |-> Indeterminate, textureNo |-> Indeterminate,
                   textureX |-> Indeterminate, textureY |-> Indeterminate,
                   textureStep |-> Indeterminate],
          self |-> self,
          call |-> NoTrace]

\* rayCaster->Trace(rayCaster, screenX, &screenY, &textureNo, &textureX,
\*                  &textureY, &textureStep), on whatever `derived' holds:
\* the pose of the latest Start, or before any Start the block as malloc
\* left it.
Trace(screenX, return) ==
    /\ Traced(screenX,
              IF started
              THEN RayCasterFloatTrace(out, derived, screenX, g_map, castMode)
              ELSE TraceIndeterminate(derived),
              return)
    /\ misuse' = (misuse \/ life["float"] # "constructed")
    /\ UNCHANGED <<g_map, castMode, started, startPose>>

\* rayCaster->Destruct(rayCaster), RayCasterFloatDestruct:
\* free(rayCaster->derived); RayCasterDestruct(rayCaster), which frees the
\* base object.
Destruct ==
    /\ heap' = [b \in Blocks |-> "freed"]
    /\ frees' = [b \in Blocks |-> frees[b] + 1]
    /\ life' = [life EXCEPT !["float"] = "destructed"]
    /\ destructs' = [destructs EXCEPT !["float"] = @ + 1]

\* ------------------------------------------------------------------------
\* Spec: a constructed float backend driven by any client
\* ------------------------------------------------------------------------
Init ==
    /\ g_map \in Maps
    /\ castMode \in CastModes
    /\ derived \in FreshBlocks
    /\ started = FALSE
    /\ out \in InitialOutputs
    /\ last = NoTrace
    /\ seen = << >>
    /\ startPose = derived
    /\ pc = "client"
    /\ heap = [b \in Blocks |-> "live"]
    /\ frees = [b \in Blocks |-> 0]
    /\ floatCaster = "float"
    /\ fixedCaster = "unset"
    /\ col = 0
    /\ steps = 0
    /\ life = [b \in Backends |-> IF b = "float" THEN "constructed" ELSE "none"]
    /\ destructs = [b \in Backends |-> 0]
    /\ misuse = FALSE
    /\ allocFailed = FALSE
    /\ fault = "none"

ClientStart ==
    /\ pc = "client"
    /\ \E pose \in Poses : Start(pose[1], pose[2], pose[3])
    /\ UNCHANGED <<pc, heap, frees, floatCaster, fixedCaster, col, steps,
                   life, destructs, allocFailed, fault>>

ClientTrace ==
    /\ pc = "client"
    /\ \E screenX \in Columns : Trace(screenX, "client")
    /\ UNCHANGED <<heap, frees, floatCaster, fixedCaster, col, steps, life,
                   destructs, allocFailed, fault>>

ClientDestruct ==
    /\ pc = "client"
    /\ Destruct
    /\ pc' = "done"
    /\ UNCHANGED <<g_map, castMode, derived, started, out, last, seen,
                   startPose, floatCaster, fixedCaster, col, steps, misuse,
                   allocFailed, fault>>

Next == ClientStart \/ ClientTrace \/ ClientDestruct

Spec == Init /\ [][Next]_vars
\* ------------------------------------------------------------------------
\* HostSpec: main of main_sdl.c
\* ------------------------------------------------------------------------
\* `derived' before RayCasterFloatConstruct has allocated the block.
NoBlock == [playerX |-> 0, playerY |-> 0, playerA |-> 0]

HostInit ==
    /\ g_map \in Maps
    /\ castMode \in CastModes
    /\ derived = NoBlock
    /\ started = FALSE
    /\ out \in InitialOutputs
    /\ last = NoTrace
    /\ seen = << >>
    /\ startPose = NoBlock
    /\ pc = "sdl_init"
    /\ heap = [b \in Blocks |-> "none"]
    /\ frees = [b \in Blocks |-> 0]
    /\ floatCaster = "unset"
    /\ fixedCaster = "unset"
    /\ col = 0
    /\ steps = 0
    /\ life = [b \in Backends |-> "none"]
    /\ destructs = [b \in Backends |-> 0]
    /\ misuse = FALSE
    /\ allocFailed = FALSE
    /\ fault = "none"

\* if (SDL_Init(SDL_INIT_VIDEO) < 0) { printf } else { ... }
SdlInit ==
    /\ pc = "sdl_init"
    /\ \E ok \in BOOLEAN : pc' = IF ok THEN "create_window" ELSE "sdl_quit"
    /\ UNCHANGED <<g_map, castMode, derived, started, out, last, seen,
                   startPose, heap, frees, floatCaster, fixedCaster, col,
                   steps, life, destructs, misuse, allocFailed, fault>>

\* sdlWindow = SDL_CreateWindow(...); if (sdlWindow == NULL) { printf } else { ... }
CreateWindow ==
    /\ pc = "create_window"
    /\ \E ok \in BOOLEAN : pc' = IF ok THEN "construct_float" ELSE "sdl_quit"
    /\ UNCHANGED <<g_map, castMode, derived, started, out, last, seen,
                   startPose, heap, frees, floatCaster, fixedCaster, col,
                   steps, life, destructs, misuse, allocFailed, fault>>

\* RayCasterFloatConstruct, lines 68-87, as called at main's line 101.
\* baseOk: RayCasterConstruct() returned an object; derivedOk: malloc did,
\* and `block' is what the new block holds.
\*   rayCaster = RayCasterConstruct();  rayCasterFloat = malloc(...);
\*   if (!rayCasterFloat) { rayCaster->Destruct(rayCaster); return NULL; }
\*   rayCaster->derived = rayCasterFloat;  ...  return rayCaster;
\* rayCaster is followed on both paths without a test.
RayCasterFloatConstruct(baseOk, derivedOk, block) ==
    /\ allocFailed' = (~baseOk \/ ~derivedOk)
    /\ fault' = IF baseOk THEN fault ELSE "null_deref"
    /\ heap' = [b \in Blocks |->
                  IF b = "floatBase"
                  THEN IF ~baseOk THEN "none"
                       ELSE IF derivedOk THEN "live" ELSE "freed"
                  ELSE IF derivedOk THEN "live" ELSE "none"]
    /\ frees' = [b \in Blocks |->
                   IF b = "floatBase" /\ baseOk /\ ~derivedOk
                   THEN frees[b] + 1 ELSE frees[b]]
    /\ floatCaster' = IF ~baseOk THEN "unset"
                      ELSE IF derivedOk THEN "float" ELSE "NULL"
    /\ life' = [life EXCEPT !["float"] =
                  IF baseOk /\ derivedOk THEN "constructed" ELSE @]
    /\ derived' = IF derivedOk THEN block ELSE derived
    /\ startPose' = derived'
    /\ pc' = IF baseOk THEN "construct_fixed" ELSE "crashed"

ConstructFloat ==
    /\ pc = "construct_float"
    /\ \E baseOk \in BOOLEAN, derivedOk \in BOOLEAN, block \in FreshBlocks :
          RayCasterFloatConstruct(baseOk, derivedOk, block)
    /\ UNCHANGED <<g_map, castMode, started, out, last, seen, fixedCaster,
                   col, steps, destructs, misuse>>

\* Renderer floatRenderer = RendererConstruct(floatCaster);
\* RayCaster *fixedCaster = RayCasterFixedConstruct();
\* Renderer fixedRenderer = RendererConstruct(fixedCaster);
\* and the SDL renderer and textures, lines 102-124.
ConstructFixed ==
    /\ pc = "construct_fixed"
    /\ fixedCaster' = "fixed"
    /\ life' = [life EXCEPT !["fixed"] = "constructed"]
    /\ pc' = "float_frame"
    /\ UNCHANGED <<g_map, castMode, derived, started, out, last, seen,
                   startPose, heap, frees, floatCaster, col, steps,
                   destructs, misuse, allocFailed, fault>>

\* RendererTraceFrame(&floatRenderer, &game, floatBuffer), line 128: the
\* renderer calls Start with the game's pose.  `game' is never initialised
\* by main and is moved by GameMove, so each frame finds some pose.
FloatFrameStart ==
    /\ pc = "float_frame"
    /\ IF floatCaster = "float"
       THEN /\ \E pose \in HostPoses : Start(pose[1], pose[2], pose[3])
            /\ pc' = "float_trace"
            /\ UNCHANGED fault
       ELSE /\ fault' = "null_deref"
            /\ pc' = "crashed"
            /\ UNCHANGED <<g_map, castMode, derived, started, out, last,
                           seen, startPose, misuse>>
    /\ col' = 0
    /\ steps' = 0
    /\ UNCHANGED <<heap, frees, floatCaster, fixedCaster, life, destructs,
                   allocFailed>>

\* ... and then Trace for the columns 0 .. SCREEN_WIDTH - 1 in turn.
FloatFrameTrace ==
    /\ pc = "float_trace"
    /\ Trace(col, IF col + 1 < SCREEN_WIDTH THEN "float_trace"
                  ELSE "fixed_frame")
    /\ steps' = IF pc' = "hung" THEN steps
                ELSE steps + last'.search.vertIters + last'.search.horiIters
    /\ col' = IF pc' = "hung" THEN col ELSE col + 1
    /\ UNCHANGED <<heap, frees, floatCaster, fixedCaster, life, destructs,
                   allocFailed, fault>>

\* RendererTraceFrame(&fixedRenderer, &game, fixedBuffer), line 129: Start
\* and SCREEN_WIDTH Traces on the fixed-point backend.
FixedFrame ==
    /\ pc = "fixed_frame"
    /\ misuse' = (misuse \/ life["fixed"] # "constructed")
    /\ pc' = "present"
    /\ UNCHANGED <<g_map, castMode, derived, started, out, last, seen,
                   startPose, heap, frees, floatCaster, fixedCaster, col,
                   steps, life, destructs, allocFailed, fault>>

\* Lines 132-148: draw_buffer twice (exit(1) if a texture cannot be
\* locked), SDL_RenderPresent, the event poll that may set isExiting, and
\* GameMove.
Present ==
    /\ pc = "present"
    /\ \E locked \in BOOLEAN, isExiting \in BOOLEAN :
          pc' = IF ~locked THEN "exited"
                ELSE IF isExiting THEN "cleanup"
                ELSE "float_frame"
    /\ UNCHANGED <<g_map, castMode, derived, started, out, last, seen,
                   startPose, heap, frees, floatCaster, fixedCaster, col,
                   steps, life, destructs, misuse, allocFailed, fault>>

\* Lines 151-154: SDL_DestroyTexture twice, SDL_DestroyRenderer,
\* SDL_DestroyWindow.
Cleanup ==
    /\ pc = "cleanup"
    /\ pc' = "sdl_quit"
    /\ UNCHANGED <<g_map, castMode, derived, started, out, last, seen,
                   startPose, heap, frees, floatCaster, fixedCaster, col,
                   steps, life, destructs, misuse, allocFailed, fault>>

\* SDL_Quit(); return 0;
SdlQuit ==
    /\ pc = "sdl_quit"
    /\ pc' = "exited"
    /\ UNCHANGED <<g_map, castMode, derived, started, out, last, seen,
                   startPose, heap, frees, floatCaster, fixedCaster, col,
                   steps, life, destructs, misuse, allocFailed, fault>>

HostNext ==
    \/ SdlInit
    \/ CreateWindow
    \/ ConstructFloat
    \/ ConstructFixed
    \/ FloatFrameStart
    \/ FloatFrameTrace
    \/ FixedFrame
    \/ Present
    \/ Cleanup
    \/ SdlQuit

HostSpec == HostInit /\ [][HostNext]_vars


\* ------------------------------------------------------------------------
\* Properties
\* ------------------------------------------------------------------------
\* The cell (floor(rayX), floor(rayY)) of a point lies outside the map:
\* floor(v) < 0 exactly when v < 0, and floor(v) >= n exactly when v >= n.
OutOfBounds(rayX, rayY) ==
    \/ FLess(rayX, 0)
    \/ FLess(rayY, 0)
    \/ FLeq(FromInt(MAP_X - 1), rayX)
    \/ FLeq(FromInt(MAP_Y - 1), rayY)

\* Bit n of the packed map, row-major, MSB-first within each byte.
MapBit(map, n) == (MapByte(map, n \div 8) \div (2 ^ (7 - (n % 8)))) % 2 = 1

\* What two normalisation loops can need for a 16-bit playerA: the angle is
\* within 32 turns of zero, and deltaAngle within one more.
MaxNormIters == 32768 \div 1024 + 1

\* The points a search handed to IsWall that lie outside the map were all
\* found to be walls: a point found a wall ends the search as its hit.
OutsideIsWall(path, hit) ==
    \A i \in 1 .. Len(path) :
        OutOfBounds(path[i][1], path[i][2]) => (hit /\ i = Len(path))

\* C1: for a pose set by Start, the screenY written by Trace is between 0
\* and HORIZON_HEIGHT: it is 0 when the corrected distance is not above 0,
\* HORIZON_HEIGHT when twice the half-height INV_FACTOR / distance exceeds
\* SCREEN_HEIGHT, and that half-height (truncated) otherwise.
C1_ScreenYWithinHorizon ==
    (started /\ last.traced) =>
        /\ 0 <= out.screenY
        /\ out.screenY <= HORIZON_HEIGHT
        /\ (~FLess(0, last.distance) => out.screenY = 0)
        /\ (FLess(0, last.distance) /\ FLess(FromInt(SCREEN_HEIGHT), last.txs)
              => out.screenY = HORIZON_HEIGHT)
        /\ (FLess(0, last.distance) /\ ~FLess(FromInt(SCREEN_HEIGHT), last.txs)
              => out.screenY = ToInt(last.tmp))

\* C1 witness: a Trace of a near wall after Start, whose half-height was
\* clamped.
C1_ClampedColumn ==
    /\ started
    /\ last.traced
    /\ FLess(0, last.distance)
    /\ FLess(FromInt(HORIZON_HEIGHT + 1), last.tmp)
    /\ out.screenY = HORIZON_HEIGHT

\* C2: Trace outputs textureNo in {0, 1} and textureX in 0 .. 255, textureX
\* being floor(256 * frac(hitOffset)); the value 256 * frac(hitOffset) is
\* neither negative nor >= 256 before it is narrowed, also for a hit
\* coordinate outside the map.
C2_TextureXInRange ==
    (started /\ last.traced) =>
        /\ out.textureNo \in {0, 1}
        /\ out.textureX \in 0 .. 255
        /\ ~FLess(last.textureXValue, 0)
        /\ FLess(last.textureXValue, FromInt(256))
        /\ out.textureX = ToInt(last.textureXValue)

\* C3: for every in-bounds cell (x, y) the wall predicate reports the cell
\* solid exactly if bit y * MAP_X + x of the packed map is set (row-major,
\* MSB-first), also where x is a multiple of 8.
C3_IsWallReadsCellBit ==
    \A x \in 0 .. MAP_X - 2, y \in 0 .. MAP_Y - 2 :
        RayCasterFloatIsWall(FromInt(x), FromInt(y), g_map, castMode)
            = MapBit(g_map, y * MAP_X + x)

\* C4: every ray point tested during the traversal whose cell
\* (floor(rayX), floor(rayY)) is out of bounds is reported a wall,
\* including points with a coordinate in (-1, 0).
C4_OutOfBoundsIsWall ==
    (started /\ last.traced) =>
        /\ OutsideIsWall(last.search.vertPath, last.search.vertHit)
        /\ OutsideIsWall(last.search.horiPath, last.search.horiHit)

\* C5: when one search finds no wall and the other finds one, the other's
\* hit is selected: the line distance is that hit's positive distance and
\* hitDirection and hitOffset describe it; with the vertical search skipped
\* textureNo is 0.
C5_FoundHitSelected ==
    (started /\ last.traced) =>
        /\ (~last.search.vertHit /\ last.search.horiHit
              => /\ last.search.lineDistance = last.search.horiHitDis
                 /\ FLess(0, last.search.lineDistance)
                 /\ last.search.hitDirection = 0
                 /\ last.search.hitOffset = last.search.hx
                 /\ out.textureNo = 0)
        /\ (~last.search.horiHit /\ last.search.vertHit
              => /\ last.search.lineDistance = last.search.vertHitDis
                 /\ FLess(0, last.search.lineDistance)
                 /\ last.search.hitDirection = 1
                 /\ last.search.hitOffset = last.search.vy
                 /\ out.textureNo = 1)

\* C6: whenever the corrected distance is not above 0, Trace emits
\* screenY = 0 and zero for textureNo, textureX, textureY and textureStep.
C6_DegenerateColumnIsZero ==
    (started /\ last.traced /\ ~FLess(0, last.distance)) =>
        /\ out.screenY = 0
        /\ out.textureNo = 0
        /\ out.textureX = 0
        /\ out.textureY = 0
        /\ out.textureStep = 0

\* C7: once Start has set a pose, Trace is idempotent and keeps the
\* backend state: a Trace of a column writes what the first Trace of that
\* column since Start wrote, whatever was traced in between; the five
\* outputs it wrote are those it would have written over any other
\* contents of the output locations; and the pose the call leaves in the
\* backend is the one Start stored.
C7_TraceIdempotent ==
    (started /\ last.traced) =>
        /\ out = seen[last.screenX]
        /\ \A prev \in InitialOutputs :
              ProjectDistance(TextureOutputs(prev, last.search.hitOffset,
                                             last.search.hitDirection,
                                             castMode),
                              last.distance, castMode).out = out
        /\ derived = startPose

\* C7 witness: after Start, a column traced again, another column having
\* been traced since.
C7_ColumnTracedAgain ==
    /\ started
    /\ last.traced
    /\ last.repeat
    /\ Cardinality(DOMAIN seen) >= 2
    /\ out = seen[last.screenX]

\* C8: every Trace of the host's frames terminates: the two normalisation
\* loops finish, after at most MaxNormIters iterations and with the angle
\* in [0, 2 pi); each of the two searches makes at most maxDepth steps and
\* stops at a wall or at the depth limit; and a frame of SCREEN_WIDTH
\* columns makes at most SCREEN_WIDTH * 2 * maxDepth search steps.
C8_SearchStepsBounded ==
    /\ pc # "hung"
    /\ last.traced =>
          /\ last.search.normIters <= MaxNormIters
          /\ ~FLess(last.search.rayA, 0)
          /\ FLess(last.search.rayA, TWO_PI_UP)
          /\ last.search.vertIters <= maxDepth
          /\ last.search.horiIters <= maxDepth
          /\ last.search.vertDepth <= maxDepth
          /\ last.search.horiDepth <= maxDepth
          /\ last.search.vertHit \/ last.search.vertDepth = maxDepth
          /\ last.search.horiHit \/ last.search.horiDepth = maxDepth
    /\ steps <= SCREEN_WIDTH * 2 * maxDepth

\* C8 witness: a whole frame traced, its searches having stepped, whose
\* last column entered the loop `while (rayA >= 2.0f * M_PI)' from an angle
\* of more than a turn.
C8_FrameTraced ==
    /\ pc = "fixed_frame"
    /\ col = SCREEN_WIDTH
    /\ last.traced
    /\ last.search.normDown > 1
    /\ steps > SCREEN_WIDTH

\* C9: when an allocation fails during RayCasterFloatConstruct, no
\* raycaster is returned, no NULL pointer is followed, every block
\* allocated in the attempt is released exactly once, and the host does not
\* go on to use the failed raycaster.
C9_AllocationFailureHandled ==
    allocFailed =>
        /\ floatCaster = "NULL"
        /\ fault = "none"
        /\ \A b \in Blocks :
              /\ heap[b] # "live"
              /\ frees[b] = IF heap[b] = "freed" THEN 1 ELSE 0
        /\ pc \notin {"float_frame", "float_trace", "fixed_frame", "present"}

\* C10: each backend follows Construct, frames of Start and Trace, Destruct:
\* no Start or Trace reaches a backend before Construct or after Destruct,
\* and every constructed backend has been destructed exactly once when the
\* program exits.
C10_BackendLifecycle ==
    /\ ~misuse
    /\ pc = "exited" =>
          \A b \in Backends :
              life[b] # "none" => life[b] = "destructed" /\ destructs[b] = 1
====
